---- MODULE Spec2Model ----
(***************************************************************************)
(* Model of spraycharles/lib/spraycharles.py: the Spraycharles scheduler.  *)
(* spray() is one sequential flow; it is cut into steps at the points      *)
(* where it hands control to a collaborator or blocks (target.login,       *)
(* print_response, the analyzer, Confirm.ask, the sleeps, the file reads). *)
(* Strings are sequences of one-character strings, so that the "@" split   *)
(* and the domain prefix are computed, not assumed.                        *)
(***************************************************************************)
EXTENDS Integers, Sequences, FiniteSets, TLC

\* ------------------------------------------------------------------ bounds
\* Largest attempts-per-interval limit tried.
MaxAttempts == 2
\* Longest credential file, in lines.
MaxFileLen == 2
\* Largest hit count the analyzer reports.
MaxHits == 1
\* Connect timeouts the target raises over a run.
MaxTimeouts == 1
\* Depth of nested _login frames the interpreter allows (CPython's recursion
\* limit, scaled down): the retry at line 258 is a call, not a loop.
RecursionLimit == 2

\* ----------------------------------------------------------------- strings
\* self.attempts when no limit is configured (Python None: equal to no count).
NoLimit == -1

\* The usernames that exist: "al", and the e-mail style "b@c@d".
Alice == <<"a", "l">>

Bob == <<"b", "@", "c", "@", "d">>

\* The passwords that exist.
Pw1 == <<"p", "1">>

Pw2 == <<"p", "2">>

UserPool == {Alice, Bob}

PasswordPool == {Pw1, Pw2}

\* The configured domain: none (falsy), or a name.
Domains == {<<>>, <<"D">>}

\* The NAME of every target class of spraycharles.targets.all.
all_modules == {"Office365"}

\* The module names a run may be configured with: a known one, a misspelt one.
Modules == all_modules \cup {"Offic365"}

\* self.target before a target is bound (line 55).
None == "None"

Range(s) == {s[i] : i \in 1..Len(s)}

IsPrefix(s, t) == Len(s) <= Len(t) /\ SubSeq(t, 1, Len(s)) = s

\* Sequences over S of length at most n.
SeqsUpTo(S, n) == UNION {[1..k -> S] : k \in 0..n}

\* The orderings of a finite set: what list(set(...)) may return.
Orderings(S) == {s \in [1..Cardinality(S) -> S] : Range(s) = S}

\* What open(file).read().splitlines() may meet: a file that cannot be opened
\* (deleted, or a literal value and not a path), or the lines of the file.
NoFile == [readable |-> FALSE, lines |-> <<>>]

FileContents(pool) == {NoFile}
                      \cup {[readable |-> TRUE, lines |-> l] : l \in SeqsUpTo(pool, MaxFileLen)}

\* ------------------------------------------------------------------- state
VARIABLES
    usernames,      \* self.usernames
    passwords,      \* self.passwords
    cfg,            \* attempts, equal, domain, analyze, pause, module (never assigned after __init__)
    target,         \* self.target: None, or the NAME of the bound target
    total_hits,     \* self.total_hits
    login_attempts, \* self.login_attempts
    pc,             \* position of spray()
    phase,          \* "equal" in _spray_equal, "spray" in the password loop
    pwIdx,          \* passwords consumed by the iterator of line 311
    uIdx,           \* usernames consumed by the iterator of line 278 / 336
    username,       \* the username handed to _login
    password,       \* the password handed to _login
    depth,          \* nested _login frames below the first
    response,       \* outcome of the last target.login: "none", "resp", "timeout", "error"
    new_hit_total,  \* local of _check_sleep
    new_users,      \* local of spray
    new_passwords,  \* local of spray
    records,        \* the output file: the number of records appended to it
    initial,        \* history: the lists the run was constructed with
    fileRead,       \* history: what the _check_file_contents in progress met
    calls,          \* history: the calls of _login in the current (or last) round
    nCalls,         \* history: the calls of _login from a loop, over the run
    written,        \* history: the records appended in the current (or last) round
    logins,         \* history: target.login invocations of the current _login call
    sleeps,         \* history: interval sleeps so far
    roundsDone,     \* history: rounds completed (equal pass and password rounds)
    gate,           \* history: what the current _check_sleep did, in order
    timeouts,       \* history: connect timeouts raised so far
    jittered,       \* history: _jitter calls before the current attempt
    analyses,       \* history: Analyzer(...).analyze() calls so far
    tried,          \* history: the (list entry, round) of every call of _login from a loop
    recorded        \* history: records per list entry since the last interval sleep

vars == <<usernames, passwords, cfg, target, total_hits, login_attempts, pc, phase, pwIdx, uIdx,
          username, password, depth, response, new_hit_total, new_users, new_passwords,
          records, initial, fileRead, calls, nCalls, written, logins, sleeps, roundsDone, gate, timeouts,
          jittered, analyses, tried, recorded>>

\* The credential lists the run is constructed with.
InitialUsernames == {<<>>, <<Alice>>, <<Alice, Bob>>}

InitialPasswords == {<<>>, <<Pw1>>, <<Pw1, Pw2>>}

Attempts == {NoLimit} \cup 0..MaxAttempts

\* __init__ (lines 27-56): the configuration, total_hits = 0, login_attempts = 0.
Init ==
    /\ usernames \in InitialUsernames
    /\ passwords \in InitialPasswords
    /\ cfg \in [attempts : Attempts, equal : BOOLEAN, domain : Domains,
                analyze : BOOLEAN, pause : BOOLEAN, module : Modules]
    /\ target = None
    /\ total_hits = 0
    /\ login_attempts = 0
    /\ pc = "init"
    /\ phase = "spray"
    /\ pwIdx = 0
    /\ uIdx = 0
    /\ username = <<>>
    /\ password = <<>>
    /\ depth = 0
    /\ response = "none"
    /\ new_hit_total = 0
    /\ new_users = <<>>
    /\ new_passwords = <<>>
    /\ records = 0
    /\ initial = [usernames |-> usernames, passwords |-> passwords]
    /\ fileRead = NoFile
    /\ calls = <<>>
    /\ nCalls = 0
    /\ written = <<>>
    /\ logins = 0
    /\ sleeps = 0
    /\ roundsDone = 0
    /\ gate = <<>>
    /\ timeouts = 0
    /\ jittered = 0
    /\ analyses = 0
    /\ tried = {}
    /\ recorded = [u \in UserPool |-> 0]

\* ------------------------------------------------------------ pure helpers
\* Mutant: the split is at the last "@".
LocalPartLastAt(u) ==
    LET at == {i \in 1..Len(u) : u[i] = "@"}
    IN  IF at = {} THEN u
        ELSE SubSeq(u, 1, (CHOOSE i \in at : \A j \in at : i >= j) - 1)

\* username.split("@")[0] (line 285): the text before the first "@".
LocalPart(u) ==
    LET at == {i \in 1..Len(u) : u[i] = "@"}
    IN  IF at = {} THEN u
        ELSE SubSeq(u, 1, (CHOOSE i \in at : \A j \in at : i <= j) - 1)

\* f"{self.domain}\\{username}" (line 347).
WithDomain(d, u) == d \o <<"\\">> \o u

\* Mutant: the current list is not subtracted.
CheckFileContentsNoDifference(file, current_list) ==
    LET new_list == IF file.readable THEN file.lines ELSE <<>>
    IN  Orderings(Range(new_list))

\* Mutant: only the first entry of the current list is subtracted.
CheckFileContentsMinusFirst(file, current_list) ==
    LET new_list == IF file.readable THEN file.lines ELSE <<>>
    IN  Orderings(Range(new_list)
                    \ (IF current_list = <<>> THEN {} ELSE {current_list[1]}))

\* _check_file_contents (lines 234-244): the values it may return, given what
\* the file holds and the current list. new_list stays [] when open() fails.
CheckFileContents(file, current_list) ==
    LET new_list == IF file.readable THEN file.lines ELSE <<>>
    IN  Orderings(Range(new_list) \ Range(current_list))

\* The loop a _login call returns to.
LoopHead == IF phase = "equal" THEN "eq_iter" ELSE "u_iter"

\* ------------------------------------------------------------------ spray
\* Mutant: the list is walked from its end.
NextUsernameReversed == usernames[Len(usernames) - uIdx]

\* The entry the username iterator yields next (lines 278, 336).
NextUsername == usernames[uIdx + 1]

\* A call of _login from one of the two loops (lines 287, 349).
CallLogin(rnd, u, p) ==
    /\ username' = u
    /\ password' = p
    /\ depth' = 0
    /\ logins' = 0
    /\ response' = "none"
    /\ calls' = Append(calls, [round |-> rnd, idx |-> uIdx + 1, username |-> u, password |-> p])
    /\ nCalls' = nCalls + 1
    /\ tried' = tried \cup {[entry |-> NextUsername, round |-> rnd]}
    /\ pc' = "login"

\* initialize_module, lines 89-92: the target whose NAME is the configured
\* module is bound; when no NAME matches, the loop ends and nothing is bound.
InitializeModule ==
    /\ pc = "init"
    /\ target' = IF cfg.module \in all_modules THEN cfg.module ELSE target
    /\ pc' = "ready"
    /\ UNCHANGED <<usernames, passwords, cfg, total_hits, login_attempts, phase, pwIdx, uIdx,
                   username, password, depth, response, new_hit_total, new_users,
                   new_passwords, records, initial, fileRead, calls, nCalls, written, logins,
                   sleeps, roundsDone, gate, timeouts, jittered, analyses, tried, recorded>>

\* pre_spray_info, lines 130-184: the table of the run; line 140 reads
\* self.target.url, an AttributeError when no target is bound.
PreSprayInfo ==
    /\ pc = "ready"
    /\ pc' = IF target = None THEN "crashed" ELSE "start"
    /\ UNCHANGED <<usernames, passwords, cfg, target, total_hits, login_attempts, phase,
                   pwIdx, uIdx, username, password, depth, response, new_hit_total, new_users,
                   new_passwords, records, initial, fileRead, calls, nCalls, written, logins,
                   sleeps, roundsDone, gate, timeouts, jittered, analyses, tried, recorded>>

\* spray, line 305: the equal pass runs first when the flag is set. The caller
\* may or may not have shown the table before.
SprayStart ==
    /\ pc \in {"ready", "start"}
    /\ IF cfg.equal
       THEN pc' = "eq_iter" /\ phase' = "equal"
       ELSE pc' = "pw_iter" /\ phase' = "spray"
    /\ uIdx' = 0
    /\ UNCHANGED <<usernames, passwords, cfg, target, total_hits, login_attempts, pwIdx,
                   username, password, depth, response, new_hit_total, new_users,
                   new_passwords, records, initial, fileRead, calls, nCalls, written, logins,
                   sleeps, roundsDone, gate, timeouts, jittered, analyses, tried, recorded>>

\* _spray_equal, lines 278-287: the next username, jitter unless it is the
\* first, the password is the username's local part.
EqualNext ==
    /\ pc = "eq_iter"
    /\ uIdx < Len(usernames)
    /\ uIdx' = uIdx + 1
    /\ jittered' = IF uIdx > 0 THEN 1 ELSE 0
    /\ CallLogin(0, NextUsername, LocalPart(NextUsername))
    /\ UNCHANGED <<usernames, passwords, cfg, target, total_hits, login_attempts, phase,
                   pwIdx, new_hit_total, new_users, new_passwords, records, initial, fileRead,
                   written, sleeps, roundsDone, gate, timeouts, analyses, recorded>>

\* Mutant: the pass counts once per username.
CountedPassPerUser == login_attempts + Len(usernames)

\* Line 295: self.login_attempts += 1, after the loop of the pass.
CountedPass == login_attempts + 1

\* _spray_equal, line 295: the pass counts as one round.
EqualDone ==
    /\ pc = "eq_iter"
    /\ uIdx >= Len(usernames)
    /\ login_attempts' = CountedPass
    /\ roundsDone' = roundsDone + 1
    /\ phase' = "spray"
    /\ pc' = "pw_iter"
    /\ UNCHANGED <<usernames, passwords, cfg, target, total_hits, pwIdx, uIdx, username,
                   password, depth, response, new_hit_total, new_users, new_passwords,
                   records, initial, fileRead, calls, nCalls, written, logins, sleeps, gate,
                   timeouts, jittered, analyses, tried, recorded>>

\* Mutant: the loop walks the list as it was when the run started.
PasswordsLeftAtStart == pwIdx < Len(initial.passwords)

\* Line 311: the list iterator compares its index with the length the list
\* has now.
PasswordsLeft == pwIdx < Len(passwords)

\* spray, line 311: the list iterator yields the next password, if the list
\* (as it is now) has one.
PasswordNext ==
    /\ pc = "pw_iter"
    /\ PasswordsLeft
    /\ pwIdx' = pwIdx + 1
    /\ password' = passwords[pwIdx + 1]
    /\ gate' = <<>>
    /\ calls' = <<>>
    /\ written' = <<>>
    /\ pc' = "check_sleep"
    /\ UNCHANGED <<usernames, passwords, cfg, target, total_hits, login_attempts, phase, uIdx,
                   username, depth, response, new_hit_total, new_users, new_passwords,
                   records, initial, fileRead, nCalls, logins, sleeps, roundsDone, timeouts,
                   jittered, analyses, tried, recorded>>

\* spray, line 311: the iterator is exhausted.
PasswordsDone ==
    /\ pc = "pw_iter"
    /\ ~PasswordsLeft
    /\ pc' = "final"
    /\ UNCHANGED <<usernames, passwords, cfg, target, total_hits, login_attempts, phase,
                   pwIdx, uIdx, username, password, depth, response, new_hit_total, new_users,
                   new_passwords, records, initial, fileRead, calls, nCalls, written, logins,
                   sleeps, roundsDone, gate, timeouts, jittered, analyses, tried, recorded>>

\* Mutant: the count the final analysis returns is stored.
AfterFinalAnalysisStored(returned) == returned

\* Line 365: the count analyze() returns is not assigned; the stored total
\* stays.
AfterFinalAnalysis(returned) == total_hits

\* spray, lines 363-365: the final analysis.
FinalAnalysis ==
    /\ pc = "final"
    /\ \E n \in 0..MaxHits : total_hits' = AfterFinalAnalysis(n)
    /\ analyses' = analyses + 1
    /\ pc' = "done"
    /\ UNCHANGED <<usernames, passwords, cfg, target, login_attempts, phase, pwIdx, uIdx,
                   username, password, depth, response, new_hit_total, new_users,
                   new_passwords, records, initial, fileRead, calls, nCalls, written, logins,
                   sleeps, roundsDone, gate, timeouts, jittered, tried, recorded>>

\* ------------------------------------------------------------ _check_sleep
\* Mutant: the check fires one round early.
LimitReachedEarly == login_attempts + 1 = cfg.attempts

\* Mutant: the check fires only once the limit is exceeded.
LimitReachedLate == login_attempts > cfg.attempts

\* Line 191: the budget is exhausted.
LimitReached == login_attempts = cfg.attempts

\* Mutant: the pause flag is not looked at.
PauseDueIgnoresFlag == new_hit_total > total_hits

\* Line 203: the run pauses for the operator.
PauseDue == new_hit_total > total_hits /\ cfg.pause

\* Lines 191, 196.
CheckSleep ==
    /\ pc = "check_sleep"
    /\ pc' = IF LimitReached THEN (IF cfg.analyze THEN "analyze" ELSE "sleep") ELSE "check_users"
    /\ UNCHANGED <<usernames, passwords, cfg, target, total_hits, login_attempts, phase,
                   pwIdx, uIdx, username, password, depth, response, new_hit_total, new_users,
                   new_passwords, records, initial, fileRead, calls, nCalls, written, logins,
                   sleeps, roundsDone, gate, timeouts, jittered, analyses, tried, recorded>>

\* Lines 197-198: the analyzer returns a hit count.
Analyze ==
    /\ pc = "analyze"
    /\ \E n \in 0..MaxHits : new_hit_total' = n
    /\ analyses' = analyses + 1
    /\ gate' = Append(gate, "analyze")
    /\ pc' = "pause_check"
    /\ UNCHANGED <<usernames, passwords, cfg, target, total_hits, login_attempts, phase,
                   pwIdx, uIdx, username, password, depth, response, new_users, new_passwords,
                   records, initial, fileRead, calls, nCalls, written, logins, sleeps,
                   roundsDone, timeouts, jittered, tried, recorded>>

\* Lines 203-213: Confirm.ask returns when the operator acknowledges.
Pause ==
    /\ pc = "pause_check"
    /\ PauseDue
    /\ gate' = Append(gate, "pause")
    /\ pc' = "set_total"
    /\ UNCHANGED <<usernames, passwords, cfg, target, total_hits, login_attempts, phase,
                   pwIdx, uIdx, username, password, depth, response, new_hit_total, new_users,
                   new_passwords, records, initial, fileRead, calls, nCalls, written, logins,
                   sleeps, roundsDone, timeouts, jittered, analyses, tried, recorded>>

\* Line 203, the condition is false.
NoPause ==
    /\ pc = "pause_check"
    /\ ~PauseDue
    /\ pc' = "set_total"
    /\ UNCHANGED <<usernames, passwords, cfg, target, total_hits, login_attempts, phase,
                   pwIdx, uIdx, username, password, depth, response, new_hit_total, new_users,
                   new_passwords, records, initial, fileRead, calls, nCalls, written, logins,
                   sleeps, roundsDone, gate, timeouts, jittered, analyses, tried, recorded>>

\* Line 218.
SetTotal ==
    /\ pc = "set_total"
    /\ total_hits' = new_hit_total
    /\ gate' = Append(gate, "total")
    /\ pc' = "sleep"
    /\ UNCHANGED <<usernames, passwords, cfg, target, login_attempts, phase, pwIdx, uIdx,
                   username, password, depth, response, new_hit_total, new_users,
                   new_passwords, records, initial, fileRead, calls, nCalls, written, logins,
                   sleeps, roundsDone, timeouts, jittered, analyses, tried, recorded>>

\* Line 225: time.sleep(self.interval * 60).
IntervalSleep ==
    /\ pc = "sleep"
    /\ sleeps' = sleeps + 1
    /\ recorded' = [u \in UserPool |-> 0]
    /\ gate' = Append(gate, "sleep")
    /\ pc' = "reset"
    /\ UNCHANGED <<usernames, passwords, cfg, target, total_hits, login_attempts, phase,
                   pwIdx, uIdx, username, password, depth, response, new_hit_total, new_users,
                   new_passwords, records, initial, fileRead, calls, nCalls, written, logins,
                   roundsDone, timeouts, jittered, analyses, tried>>

\* Line 231.
ResetCounter ==
    /\ pc = "reset"
    /\ login_attempts' = 0
    /\ gate' = Append(gate, "reset")
    /\ pc' = "check_users"
    /\ UNCHANGED <<usernames, passwords, cfg, target, total_hits, phase, pwIdx, uIdx,
                   username, password, depth, response, new_hit_total, new_users,
                   new_passwords, records, initial, fileRead, calls, nCalls, written, logins,
                   sleeps, roundsDone, timeouts, jittered, analyses, tried, recorded>>

\* ------------------------------------------------------------------ reload
\* Mutant: the additions are put in front.
ExtendedAtFront(list, additions) == additions \o list

\* list.extend (lines 323, 327): the additions go to the end, in place.
Extended(list, additions) == list \o additions

\* Line 316: the user file is read again.
CheckUserFile ==
    /\ pc = "check_users"
    /\ \E f \in FileContents(UserPool) :
         /\ fileRead' = f
         /\ new_users' \in CheckFileContents(f, usernames)
    /\ pc' = "check_passwords"
    /\ UNCHANGED <<usernames, passwords, cfg, target, total_hits, login_attempts, phase,
                   pwIdx, uIdx, username, password, depth, response, new_hit_total,
                   new_passwords, records, initial, calls, nCalls, written, logins, sleeps,
                   roundsDone, gate, timeouts, jittered, analyses, tried, recorded>>

\* Lines 317-319: the password file is read again.
CheckPasswordFile ==
    /\ pc = "check_passwords"
    /\ \E f \in FileContents(PasswordPool) :
         /\ fileRead' = f
         /\ new_passwords' \in CheckFileContents(f, passwords)
    /\ pc' = "merge"
    /\ UNCHANGED <<usernames, passwords, cfg, target, total_hits, login_attempts, phase,
                   pwIdx, uIdx, username, password, depth, response, new_hit_total, new_users,
                   records, initial, calls, nCalls, written, logins, sleeps, roundsDone, gate,
                   timeouts, jittered, analyses, tried, recorded>>

\* Lines 321-336: both lists are extended, then the username loop starts.
Merge ==
    /\ pc = "merge"
    /\ usernames' = IF Len(new_users) > 0 THEN Extended(usernames, new_users) ELSE usernames
    /\ passwords' = IF Len(new_passwords) > 0 THEN Extended(passwords, new_passwords)
                    ELSE passwords
    /\ fileRead' = NoFile
    /\ uIdx' = 0
    /\ pc' = "u_iter"
    /\ UNCHANGED <<cfg, target, total_hits, login_attempts, phase, pwIdx, username, password,
                   depth, response, new_hit_total, new_users, new_passwords, records, initial,
                   calls, nCalls, written, logins, sleeps, roundsDone, gate, timeouts,
                   jittered, analyses, tried, recorded>>

\* ---------------------------------------------------------- password round
\* Lines 346-347: the username sent in a password round.
Prefixed(u) == IF cfg.domain # <<>> THEN WithDomain(cfg.domain, u) ELSE u

\* Mutant: the round walks the list as it was before the reload.
RoundOverBeforeNew == uIdx >= Len(usernames) - Len(new_users)

\* Line 336: the username iterator of the round is exhausted.
RoundOver == uIdx >= Len(usernames)

\* Mutant: the equal flag is not looked at.
JitterDueNotFirst == uIdx > 0

\* Lines 341-344: _jitter is called on every iteration when the equal flag is
\* set, else on every iteration but the first.
JitterDue == cfg.equal \/ uIdx > 0

\* Lines 336-349: the next username of the round.
UserNext ==
    /\ pc = "u_iter"
    /\ ~RoundOver
    /\ uIdx' = uIdx + 1
    /\ jittered' = IF JitterDue THEN 1 ELSE 0
    /\ CallLogin(pwIdx, Prefixed(NextUsername), password)
    /\ UNCHANGED <<usernames, passwords, cfg, target, total_hits, login_attempts, phase,
                   pwIdx, new_hit_total, new_users, new_passwords, records, initial, fileRead,
                   written, sleeps, roundsDone, gate, timeouts, analyses, recorded>>

\* Mutant: a password round is not counted.
CountedRoundFree == login_attempts

\* Line 358: self.login_attempts += 1, after the username loop.
CountedRound == login_attempts + 1

\* Line 358: the round is over.
RoundDone ==
    /\ pc = "u_iter"
    /\ RoundOver
    /\ login_attempts' = CountedRound
    /\ roundsDone' = roundsDone + 1
    /\ pc' = "pw_iter"
    /\ UNCHANGED <<usernames, passwords, cfg, target, total_hits, phase, pwIdx, uIdx,
                   username, password, depth, response, new_hit_total, new_users,
                   new_passwords, records, initial, fileRead, calls, nCalls, written, logins,
                   sleeps, gate, timeouts, jittered, analyses, tried, recorded>>

\* ------------------------------------------------------------------ _login
\* What a print_response that succeeds appends to the output file.
Written(kind) == <<[username |-> username, password |-> password, kind |-> kind]>>

\* Mutant: the clause of the transient errors comes first and takes
\* ConnectTimeout, a ConnectionError, too.
HandlerTransientFirst(outcome) == IF outcome = "resp" THEN "print" ELSE "backoff"

\* Lines 249-253: where an outcome of target.login is handled. ConnectTimeout
\* has its own clause, before the clause of the transient errors.
Handler(outcome) ==
    CASE outcome = "resp" -> "print"
      [] outcome = "timeout" -> "print_timeout"
      [] OTHER -> "backoff"

\* _login returns to the loop that called it, through every nested frame.
Return ==
    /\ depth' = 0
    /\ pc' = LoopHead

\* Line 249: no target is bound; None has no login, an AttributeError, which
\* no clause of lines 251-253 catches.
LoginNoTarget ==
    /\ pc = "login"
    /\ target = None
    /\ pc' = "crashed"
    /\ UNCHANGED <<usernames, passwords, cfg, target, total_hits, login_attempts, phase,
                   pwIdx, uIdx, username, password, depth, response, new_hit_total, new_users,
                   new_passwords, records, initial, fileRead, calls, nCalls, written, logins,
                   sleeps, roundsDone, gate, timeouts, jittered, analyses, tried, recorded>>

\* Line 249: target.login returns a response.
LoginResponse ==
    /\ pc = "login"
    /\ target # None
    /\ logins' = logins + 1
    /\ response' = "resp"
    /\ pc' = Handler("resp")
    /\ UNCHANGED <<usernames, passwords, cfg, target, total_hits, login_attempts, phase,
                   pwIdx, uIdx, username, password, depth, new_hit_total, new_users,
                   new_passwords, records, initial, fileRead, calls, nCalls, written, sleeps,
                   roundsDone, gate, timeouts, jittered, analyses, tried, recorded>>

\* Lines 249, 251: target.login raises requests.ConnectTimeout.
LoginConnectTimeout ==
    /\ pc = "login"
    /\ target # None
    /\ timeouts < MaxTimeouts
    /\ timeouts' = timeouts + 1
    /\ logins' = logins + 1
    /\ response' = "timeout"
    /\ pc' = Handler("timeout")
    /\ UNCHANGED <<usernames, passwords, cfg, target, total_hits, login_attempts, phase,
                   pwIdx, uIdx, username, password, depth, new_hit_total, new_users,
                   new_passwords, records, initial, fileRead, calls, nCalls, written, sleeps,
                   roundsDone, gate, jittered, analyses, tried, recorded>>

\* Lines 249, 253: target.login raises ConnectionError, ReadTimeout or OSError.
LoginTransient ==
    /\ pc = "login"
    /\ target # None
    /\ logins' = logins + 1
    /\ response' = "error"
    /\ pc' = Handler("error")
    /\ UNCHANGED <<usernames, passwords, cfg, target, total_hits, login_attempts, phase,
                   pwIdx, uIdx, username, password, depth, new_hit_total, new_users,
                   new_passwords, records, initial, fileRead, calls, nCalls, written, sleeps,
                   roundsDone, gate, timeouts, jittered, analyses, tried, recorded>>

\* Line 250: print_response appends the response to the output file.
PrintResponse ==
    /\ pc = "print"
    /\ records' = records + Len(Written("resp"))
    /\ written' = written \o Written("resp")
    /\ recorded' = [recorded EXCEPT ![usernames[uIdx]] = @ + 1]
    /\ Return
    /\ UNCHANGED <<usernames, passwords, cfg, target, total_hits, login_attempts, phase,
                   pwIdx, uIdx, username, password, response, new_hit_total, new_users,
                   new_passwords, initial, fileRead, calls, nCalls, logins, sleeps,
                   roundsDone, gate, timeouts, jittered, analyses, tried>>

\* Lines 250, 253: print_response raises OSError; the same handler catches it.
PrintResponseFails ==
    /\ pc = "print"
    /\ pc' = "backoff"
    /\ UNCHANGED <<usernames, passwords, cfg, target, total_hits, login_attempts, phase,
                   pwIdx, uIdx, username, password, depth, response, new_hit_total, new_users,
                   new_passwords, records, initial, fileRead, calls, nCalls, written, logins,
                   sleeps, roundsDone, gate, timeouts, jittered, analyses, tried, recorded>>

\* Line 252: print_response appends the timeout record.
PrintTimeout ==
    /\ pc = "print_timeout"
    /\ records' = records + Len(Written("timeout"))
    /\ written' = written \o Written("timeout")
    /\ recorded' = [recorded EXCEPT ![usernames[uIdx]] = @ + 1]
    /\ Return
    /\ UNCHANGED <<usernames, passwords, cfg, target, total_hits, login_attempts, phase,
                   pwIdx, uIdx, username, password, response, new_hit_total, new_users,
                   new_passwords, initial, fileRead, calls, nCalls, logins, sleeps,
                   roundsDone, gate, timeouts, jittered, analyses, tried>>

\* Line 252: print_response raises inside the handler; nothing catches it.
PrintTimeoutFails ==
    /\ pc = "print_timeout"
    /\ pc' = "crashed"
    /\ UNCHANGED <<usernames, passwords, cfg, target, total_hits, login_attempts, phase,
                   pwIdx, uIdx, username, password, depth, response, new_hit_total, new_users,
                   new_passwords, records, initial, fileRead, calls, nCalls, written, logins,
                   sleeps, roundsDone, gate, timeouts, jittered, analyses, tried, recorded>>

\* Lines 254-258: sleep(5), then _login calls itself: one more frame.
Retry ==
    /\ pc = "backoff"
    /\ depth < RecursionLimit
    /\ depth' = depth + 1
    /\ pc' = "login"
    /\ UNCHANGED <<usernames, passwords, cfg, target, total_hits, login_attempts, phase,
                   pwIdx, uIdx, username, password, response, new_hit_total, new_users,
                   new_passwords, records, initial, fileRead, calls, nCalls, written, logins,
                   sleeps, roundsDone, gate, timeouts, jittered, analyses, tried, recorded>>

\* Line 258: no frame is left for the call; RecursionError is no OSError and
\* leaves spray().
RetryOverflow ==
    /\ pc = "backoff"
    /\ depth >= RecursionLimit
    /\ pc' = "crashed"
    /\ UNCHANGED <<usernames, passwords, cfg, target, total_hits, login_attempts, phase,
                   pwIdx, uIdx, username, password, depth, response, new_hit_total, new_users,
                   new_passwords, records, initial, fileRead, calls, nCalls, written, logins,
                   sleeps, roundsDone, gate, timeouts, jittered, analyses, tried, recorded>>

\* ---------------------------------------------------------- specification
Next ==
    \/ InitializeModule
    \/ PreSprayInfo
    \/ SprayStart
    \/ EqualNext
    \/ EqualDone
    \/ PasswordNext
    \/ PasswordsDone
    \/ FinalAnalysis
    \/ CheckSleep
    \/ Analyze
    \/ Pause
    \/ NoPause
    \/ SetTotal
    \/ IntervalSleep
    \/ ResetCounter
    \/ CheckUserFile
    \/ CheckPasswordFile
    \/ Merge
    \/ UserNext
    \/ RoundDone
    \/ LoginNoTarget
    \/ LoginResponse
    \/ LoginConnectTimeout
    \/ LoginTransient
    \/ PrintResponse
    \/ PrintResponseFails
    \/ PrintTimeout
    \/ PrintTimeoutFails
    \/ Retry
    \/ RetryOverflow

Spec == Init /\ [][Next]_vars

\* ------------------------------------------------------------------ claims
\* The round the calls of `calls` belong to: 0 is the equal pass, k the k-th
\* password.
CurrentRound == IF phase = "equal" THEN 0 ELSE pwIdx

\* A call of _login is in progress (or was, when the run crashed in it).
InAttempt == Len(calls) > 0 /\ pc \in {"login", "print", "print_timeout", "backoff", "crashed"}

\* Rounds that must be complete before the calls of `calls` can be made.
RoundsBefore == IF phase = "equal" THEN 0 ELSE pwIdx - 1 + (IF cfg.equal THEN 1 ELSE 0)

\* The scenario of the specification: alice and bob, pw1 and pw2, no equal
\* pass, no domain, and lists that did not grow.
ScenarioRun ==
    /\ initial = [usernames |-> <<Alice, Bob>>, passwords |-> <<Pw1, Pw2>>]
    /\ usernames = initial.usernames
    /\ passwords = initial.passwords
    /\ ~cfg.equal
    /\ cfg.domain = <<>>

ScenarioLogins == <<<<Alice, Pw1>>, <<Bob, Pw1>>, <<Alice, Pw2>>, <<Bob, Pw2>>>>

\* Within a round the calls follow the list, one per entry, each recorded
\* before the next is made, and no call of a round is made before the rounds
\* before it are complete.
SequentialState ==
    /\ \A i \in 1..Len(calls) : calls[i].round = CurrentRound /\ calls[i].idx = i
    /\ pc \in {"eq_iter", "u_iter", "login", "print", "print_timeout", "backoff"}
          => Len(calls) = uIdx
    /\ Len(written) = Len(calls) - (IF InAttempt THEN 1 ELSE 0)
    /\ Len(calls) > 0 => roundsDone \in {RoundsBefore, RoundsBefore + 1}
    /\ InAttempt => roundsDone = RoundsBefore
    /\ ScenarioRun =>
          /\ nCalls <= Len(ScenarioLogins)
          /\ \A i \in 1..Len(calls) :
                <<calls[i].username, calls[i].password>>
                    = ScenarioLogins[nCalls - Len(calls) + i]
          /\ pc = "done" => nCalls = Len(ScenarioLogins)

\* A round is counted as complete only when every entry of the list has been
\* attempted and recorded.
SequentialStep ==
    roundsDone' # roundsDone =>
        /\ roundsDone' = roundsDone + 1
        /\ Len(calls) = Len(usernames)
        /\ Len(written) = Len(usernames)

\* C1: login attempts are strictly sequential, ordered by (password round,
\* username index): a round's attempts are all recorded before the next round
\* starts, usernames go in list order, each once; in the scenario the login
\* sequence is (alice,pw1), (bob,pw1), (alice,pw2), (bob,pw2).
C1_SequentialOrder == [](SequentialState) /\ [][SequentialStep]_vars

\* The scenario has run to its end.
C1_Witness == ScenarioRun /\ pc = "done" /\ nCalls = 4 /\ records = 4

\* No pacing check has been made since the last round was completed.
BetweenRounds ==
    \/ phase = "equal"
    \/ pc \in {"init", "ready", "start", "pw_iter", "check_sleep", "analyze", "pause_check", "set_total",
               "sleep", "final", "done"}

\* C2: with a limit A > 0 the interval sleep has happened exactly once per A
\* completed rounds (the equal pass is one round): right after the pacing check
\* of a round the number of sleeps is rounds div A, and it does not change
\* anywhere else; 2 passwords give no sleep with limit 2 and one sleep with
\* limit 1.
C2_SleepOncePerLimit ==
    cfg.attempts > 0 =>
        /\ sleeps = IF BetweenRounds
                    THEN (IF roundsDone = 0 THEN 0 ELSE (roundsDone - 1) \div cfg.attempts)
                    ELSE roundsDone \div cfg.attempts
        /\ (ScenarioRun /\ pc = "done") => sleeps = (IF cfg.attempts = 1 THEN 1 ELSE 0)

\* Limit 1, the equal pass and two passwords: a sleep before each password.
C2_Witness == pc = "done" /\ cfg.attempts = 1 /\ cfg.equal /\ roundsDone = 3 /\ sleeps = 2

\* C3: with a limit configured (a positive one: line 145 takes 0 as none) the
\* round counter never exceeds the limit, and it is 0 when a _check_sleep that
\* slept returns.
C3_CounterBounded ==
    /\ cfg.attempts > 0 => login_attempts <= cfg.attempts
    /\ (pc = "check_users" /\ gate # <<>>) => login_attempts = 0

\* The counter reached a limit of 2 and the sleep reset it.
C3_Witness ==
    pc = "check_users" /\ cfg.attempts = 2 /\ gate # <<>> /\ login_attempts = 0 /\ sleeps = 1

\* The record a returned _login call leaves for its pair.
OutcomeRecord ==
    [username |-> username, password |-> password,
     kind |-> IF response = "timeout" THEN "timeout" ELSE "resp"]

\* C4: a _login call that returns has appended exactly one record for its
\* pair, the response or the timeout record as the last login invocation gave;
\* a connect timeout is not retried; invocations that failed append nothing.
C4_OneRecordPerCall ==
    /\ Len(written) = Len(calls) - (IF InAttempt THEN 1 ELSE 0)
    /\ records = nCalls - (IF InAttempt THEN 1 ELSE 0)
    /\ \A i \in 1..Len(written) :
          /\ written[i].username = calls[i].username
          /\ written[i].password = calls[i].password
    /\ (pc \in {"eq_iter", "u_iter"} /\ Len(calls) > 0) =>
          /\ response \in {"resp", "timeout"}
          /\ written[Len(written)] = OutcomeRecord
    /\ pc \in {"login", "backoff"} => response # "timeout"

\* The second call of a round returned with the timeout record, after two
\* transient failures of login.
C4_Witness ==
    /\ pc = "u_iter"
    /\ Len(written) = 2
    /\ written[1].kind = "resp"
    /\ written[2].kind = "timeout"
    /\ logins = 3

\* C5: on a transient failure of login, _login backs off and calls login again
\* for the same pair, however many times it has already retried, and nothing
\* else changes meanwhile.
C5_RetryUnbounded ==
    [][(pc = "backoff" /\ response = "error")
          => /\ pc' = "login"
             /\ username' = username
             /\ password' = password
             /\ UNCHANGED <<usernames, passwords, cfg, target, total_hits, login_attempts,
                            phase, pwIdx, uIdx, depth, response, new_hit_total, new_users,
                            new_passwords, records, initial, fileRead, calls, nCalls, written,
                            logins, sleeps, roundsDone, gate, timeouts, jittered, analyses,
                            tried, recorded>>]_vars

\* C6: after a password round, every username its reload merged was attempted
\* in that round with that password, after the usernames already listed.
C6_NewUsersSameRound ==
    (pc = "pw_iter" /\ pwIdx > 0) =>
        LET base == Len(usernames) - Len(new_users)
        IN  /\ base >= 0
            /\ SubSeq(usernames, base + 1, Len(usernames)) = new_users
            /\ Len(calls) = Len(usernames)
            /\ Len(written) = Len(usernames)
            /\ \A i \in 1..Len(calls) :
                  /\ calls[i].round = pwIdx
                  /\ calls[i].idx = i
                  /\ calls[i].password = passwords[pwIdx]
                  /\ calls[i].username \in {usernames[i], WithDomain(cfg.domain, usernames[i])}
            /\ \A j \in 1..Len(new_users) :
                  calls[base + j].username
                      \in {new_users[j], WithDomain(cfg.domain, new_users[j])}

\* The second round merged bob behind alice and attempted both.
C6_Witness ==
    /\ pc = "pw_iter"
    /\ pwIdx = 2
    /\ initial.usernames = <<Alice>>
    /\ new_users = <<Bob>>
    /\ Len(calls) = 2
    /\ calls[2].password = Pw2

\* C7: the username list and the password list only grow: every step leaves
\* the old list a prefix of the new one, whatever the files held.
C7_ListsOnlyGrow ==
    [][IsPrefix(usernames, usernames') /\ IsPrefix(passwords, passwords')]_vars

\* Both lists have grown, and the password file read in a later round is
\* empty.
C7_Witness ==
    /\ pc = "merge"
    /\ Len(usernames) > Len(initial.usernames)
    /\ Len(passwords) > Len(initial.passwords)
    /\ fileRead = [readable |-> TRUE, lines |-> <<>>]

\* The entries of a file read that are not in a list.
Delta(file, list) == (IF file.readable THEN Range(file.lines) ELSE {}) \ Range(list)

NoDuplicates(s) == Cardinality(Range(s)) = Len(s)

\* What _check_file_contents returned for the file just read.
DeltaReturned ==
    /\ pc = "check_passwords" =>
          /\ Range(new_users) = Delta(fileRead, usernames)
          /\ NoDuplicates(new_users)
          /\ ~fileRead.readable => new_users = <<>>
    /\ pc = "merge" =>
          /\ Range(new_passwords) = Delta(fileRead, passwords)
          /\ NoDuplicates(new_passwords)
          /\ ~fileRead.readable => new_passwords = <<>>

\* An empty delta leaves the list as it is; the reload never ends the run.
EmptyDeltaStep ==
    pc = "merge" =>
        /\ pc' = "u_iter"
        /\ new_users = <<>> => usernames' = usernames
        /\ new_passwords = <<>> => passwords' = passwords

\* C8: _check_file_contents returns the entries of the file that are not in the
\* current list, each once, in any order; a file that cannot be read gives the
\* empty delta, no error, and the reload leaves the list unchanged.
C8_FileDelta == [](DeltaReturned) /\ [][EmptyDeltaStep]_vars

\* The user file gave bob before alice, and the password file cannot be read.
C8_Witness ==
    /\ pc = "merge"
    /\ new_users = <<Bob, Alice>>
    /\ ~fileRead.readable
    /\ new_passwords = <<>>

\* C9: with a domain configured every username handed to login, in the equal
\* pass and in the password rounds, is domain\username of the list entry, and
\* without one it is the list entry.
C9_DomainPrefixEverywhere ==
    \A i \in 1..Len(calls) :
        calls[i].username = IF cfg.domain # <<>>
                            THEN WithDomain(cfg.domain, usernames[calls[i].idx])
                            ELSE usernames[calls[i].idx]

\* What a _check_sleep that found the budget exhausted does, in order.
ExpectedGate ==
    IF cfg.analyze
    THEN <<"analyze">> \o (IF "pause" \in Range(gate) THEN <<"pause">> ELSE <<>>)
         \o <<"total", "sleep", "reset">>
    ELSE <<"sleep", "reset">>

\* C10: when the budget is exhausted: the analyzer once if analysis is enabled,
\* the pause exactly when the returned count exceeds the stored total and
\* pausing is enabled, the stored total set to the returned count either way,
\* then the sleep, then the reset; with analysis disabled only the sleep and
\* the reset, and the stored total unchanged.
C10_GateOrder ==
    /\ IsPrefix(gate, ExpectedGate)
    /\ pc = "check_users" => gate \in {<<>>, ExpectedGate}
    /\ (pc = "check_users" /\ gate = <<>>) => login_attempts # cfg.attempts
    /\ pc = "set_total" =>
          (("pause" \in Range(gate)) <=> (new_hit_total > total_hits /\ cfg.pause))
    /\ "total" \in Range(gate) => total_hits = new_hit_total
    /\ ~cfg.analyze => total_hits = 0

\* The analyzer reported a new hit, the operator acknowledged, the run slept.
C10_Witness ==
    /\ pc = "check_users"
    /\ gate = <<"analyze", "pause", "total", "sleep", "reset">>
    /\ total_hits = 1

\* The analyzer has been called once per exhausted budget when analysis is
\* enabled, and once more, whatever the flag, when the run has ended.
FinalAnalysisState ==
    /\ analyses = (IF cfg.analyze
                   THEN sleeps + (IF pc \in {"pause_check", "set_total", "sleep"} THEN 1 ELSE 0)
                   ELSE 0)
                  + (IF pc = "done" THEN 1 ELSE 0)
    /\ pc \in {"final", "done"} => (pwIdx = Len(passwords) /\ phase = "spray")

\* The final analysis follows the end of the password loop, calls the analyzer
\* and ends the run; it checks no budget, does not sleep, asks nothing, stores
\* nothing; nothing follows it.
FinalAnalysisStep ==
    /\ pc' = "final" => (pc = "pw_iter" /\ pwIdx = Len(passwords))
    /\ pc = "final" =>
          /\ pc' = "done"
          /\ analyses' = analyses + 1
          /\ UNCHANGED <<usernames, passwords, cfg, target, total_hits, login_attempts, phase,
                         pwIdx, uIdx, username, password, depth, response, new_hit_total,
                         new_users, new_passwords, records, initial, fileRead, calls, nCalls,
                         written, logins, sleeps, roundsDone, gate, timeouts, jittered, tried,
                         recorded>>
    /\ pc # "done"

\* C11: after the last password round the analyzer is called exactly once
\* more, whether or not analysis is enabled, with no pacing check, sleep or
\* pause; then the run ends: no login follows, and the stored hit total is
\* left as it was.
C11_FinalAnalysisOnce == [](FinalAnalysisState) /\ [][FinalAnalysisStep]_vars

\* A run without analysis ended: two rounds, one sleep, one analyzer call.
C11_Witness ==
    /\ pc = "done"
    /\ ~cfg.analyze
    /\ analyses = 1
    /\ roundsDone = 2
    /\ sleeps = 1
    /\ nCalls = 4

\* C12: while no target is bound the run does not get past its set-up: the
\* equal pass and the password loop are not entered, no attempt is made, none
\* is recorded.
C12_UnknownModuleRejected ==
    target = None =>
        /\ pc \in {"init", "ready", "crashed"}
        /\ phase # "equal"
        /\ pwIdx = 0
        /\ nCalls = 0
        /\ records = 0

\* The password of the equal pass for each username that exists, written out:
\* "al" for "al", "b" for "b@c@d".
EqualPassword(u) == IF u = Bob THEN <<"b">> ELSE u

\* C13: with the equal flag set the equal pass makes one attempt per entry of
\* the username list, in list order, with the text of the username before its
\* first "@" as the password; the pass is complete before the first password
\* round starts and takes no entry of the password list: every password still
\* gets its round.
C13_EqualPass ==
    /\ phase = "equal" => (cfg.equal /\ roundsDone = 0 /\ passwords = initial.passwords)
    /\ pwIdx = 0 =>
          /\ pc \in {"eq_iter", "login", "print", "print_timeout", "backoff"}
                => Len(calls) = uIdx
          /\ ~cfg.equal => nCalls = 0
          /\ \A i \in 1..Len(calls) :
                /\ calls[i].round = 0
                /\ calls[i].idx = i
                /\ calls[i].username = usernames[i]
                /\ calls[i].password = EqualPassword(usernames[i])
    /\ (cfg.equal /\ phase = "spray" /\ pwIdx = 0 /\ pc = "pw_iter") =>
          /\ Len(calls) = Len(usernames)
          /\ Len(written) = Len(usernames)
          /\ roundsDone = 1
    /\ (cfg.equal /\ pwIdx > 0) => roundsDone >= pwIdx
    /\ pc = "done" =>
          /\ pwIdx = Len(passwords)
          /\ roundsDone = Len(passwords) + (IF cfg.equal THEN 1 ELSE 0)

\* The pass is over for "al" and "b@c@d": the second password was "b".
C13_Witness ==
    /\ cfg.equal
    /\ pc = "pw_iter"
    /\ pwIdx = 0
    /\ usernames = <<Alice, Bob>>
    /\ Len(calls) = 2
    /\ calls[2].password = <<"b">>
    /\ records = 2
    /\ Len(passwords) = 2

\* The rounds counted since the counter was last reset.
RoundsSinceReset ==
    IF cfg.attempts = NoLimit THEN roundsDone
    ELSE roundsDone - cfg.attempts * (sleeps - (IF pc = "reset" THEN 1 ELSE 0))

\* C14: the round counter goes up by exactly 1 for the equal pass, however many
\* usernames it attempted, and by exactly 1 for each password round, and by
\* nothing else: it is the number of rounds completed since its last reset. So
\* with the equal flag and limit 1 the run sleeps between the equal pass and
\* the first password round.
C14_OnePerRound ==
    /\ login_attempts = RoundsSinceReset
    /\ phase = "equal" => (login_attempts = 0 /\ sleeps = 0)
    /\ (cfg.equal /\ phase = "spray" /\ pwIdx = 0 /\ pc = "pw_iter") => login_attempts = 1
    /\ (cfg.equal /\ cfg.attempts = 1 /\ pwIdx = 1
          /\ pc \in {"check_users", "check_passwords", "merge", "u_iter", "login", "print",
                     "print_timeout", "backoff"})
          => (sleeps = 1 /\ nCalls = Len(calls) + Len(initial.usernames))

\* Limit 1 and an equal pass over no username: the run slept before the first
\* password round.
C14_Witness ==
    /\ cfg.equal
    /\ cfg.attempts = 1
    /\ initial.usernames = <<>>
    /\ pwIdx = 1
    /\ pc = "check_users"
    /\ gate = <<"sleep", "reset">>
    /\ login_attempts = 0

\* Whether _jitter runs before the attempt of the given position.
JitterExpected(inEqualPass, idx) ==
    IF inEqualPass THEN idx > 1
    ELSE IF cfg.equal THEN TRUE
    ELSE idx > 1

\* C15: _jitter runs before an attempt of the equal pass unless it is the very
\* first, before an attempt of a password round unless it is the first of the
\* round, and with the equal flag set before every attempt of every password
\* round; it runs once for the attempt, retries do not repeat it.
C15_JitterCases ==
    Len(calls) > 0 =>
        jittered = IF JitterExpected(calls[Len(calls)].round = 0, calls[Len(calls)].idx)
                   THEN 1 ELSE 0

\* The first attempt of a password round after an equal pass, in its second
\* retry: one jitter.
C15_Witness ==
    /\ cfg.equal
    /\ phase = "spray"
    /\ Len(calls) = 1
    /\ pc = "login"
    /\ depth = 2
    /\ jittered = 1

\* C16: with a limit A > 0 and a username list without duplicates, no entry of
\* the list has more than A recorded attempts between two consecutive interval
\* sleeps, before the first or after the last, the attempt of the equal pass
\* counted, whatever the reloads and the retries.
C16_LockoutBound ==
    (cfg.attempts > 0 /\ NoDuplicates(usernames)) =>
        \A u \in UserPool : recorded[u] <= cfg.attempts

\* Limit 2: the equal pass and the first password round, with a retry, have
\* each recorded an attempt for "al", and the run has not slept yet.
C16_Witness ==
    /\ cfg.attempts = 2
    /\ cfg.equal
    /\ NoDuplicates(usernames)
    /\ recorded[Alice] = 2
    /\ sleeps = 0
    /\ pwIdx = 1
    /\ logins = 2
    /\ new_users = <<Bob>>

\* C17: the password loop walks the list as it grows: a password a reload
\* merged, also one merged in what was the last round until then, gets its own
\* round, once, after the passwords listed before it; the loop ends only when
\* every password of the list has had its round.
C17_MergedPasswordsGetRounds ==
    /\ NoDuplicates(passwords)
    /\ IsPrefix(initial.passwords, passwords)
    /\ pwIdx <= Len(passwords)
    /\ pwIdx > 0 =>
          /\ password = passwords[pwIdx]
          /\ \A i \in 1..Len(calls) : calls[i].round = pwIdx /\ calls[i].password = passwords[pwIdx]
    /\ pc = "pw_iter" => roundsDone = pwIdx + (IF cfg.equal THEN 1 ELSE 0)
    /\ pc \in {"final", "done"} =>
          /\ pwIdx = Len(passwords)
          /\ roundsDone = Len(passwords) + (IF cfg.equal THEN 1 ELSE 0)

\* The run started with one password; the reload of its round found a second
\* one, which had its round before the run ended.
C17_Witness ==
    /\ pc = "done"
    /\ initial.passwords = <<Pw1>>
    /\ passwords = <<Pw1, Pw2>>
    /\ roundsDone = 2
    /\ Len(calls) = 2
    /\ calls[2].password = Pw2
    /\ records = 3

\* The round whose reload assigned new_users.
MergedAt ==
    IF pc \in {"check_sleep", "analyze", "pause_check", "set_total", "sleep", "reset",
               "check_users"}
    THEN pwIdx - 1
    ELSE pwIdx

\* The (username, password) pairs the password rounds have attempted.
Pairs == {<<h.entry, passwords[h.round]>> : h \in {t \in tried : t.round >= 1}}

\* The rounds whose username loop has ended.
RoundsOver == {r \in 1..pwIdx : r < pwIdx \/ pc \in {"pw_iter", "final", "done"}}

\* C18: a password round attempts exactly the username list as it stands after
\* its reload; a username merged at round k is attempted neither with the
\* password of a round before k nor in the equal pass, so the pairs attempted
\* for it are fewer than usernames x passwords; no pair is attempted in two
\* rounds.
C18_RoundUsesReloadedList ==
    /\ NoDuplicates(usernames)
    /\ \A h \in tried : h.entry \in Range(usernames) /\ h.round \in 0..pwIdx
    /\ (pc = "pw_iter" /\ pwIdx > 0) =>
          /\ {h.entry : h \in {t \in tried : t.round = pwIdx}} = Range(usernames)
          /\ Len(calls) = Cardinality(Range(usernames))
    /\ \A u \in Range(new_users) : \A h \in tried : h.entry = u => h.round >= MergedAt
    /\ \A h \in tried : \A r \in RoundsOver :
          h.round < r => [entry |-> h.entry, round |-> r] \in tried
    /\ \A g, h \in tried :
          (g.round >= 1 /\ h.round >= 1 /\ g.entry = h.entry
             /\ passwords[g.round] = passwords[h.round]) => g = h
    /\ Pairs \subseteq Range(usernames) \X Range(passwords)
    /\ pc = "done" =>
          \A u \in Range(usernames) :
              (passwords # <<>> /\ [entry |-> u, round |-> 1] \notin tried)
                  => <<u, passwords[1]>> \notin Pairs

\* "b@c@d" was merged at the second round of a run with an equal pass: it was
\* attempted with the second password only.
C18_Witness ==
    /\ pc = "done"
    /\ cfg.equal
    /\ initial.usernames = <<Alice>>
    /\ usernames = <<Alice, Bob>>
    /\ Len(passwords) = 2
    /\ {h.round : h \in {t \in tried : t.entry = Bob}} = {2}
    /\ {h.round : h \in {t \in tried : t.entry = Alice}} = {0, 1, 2}

\* The hypotheses of termination are about what the surroundings do in the
\* end (the target answers, the operator acknowledges, the files stop
\* growing): no finite run contradicts them, and the pools of the model are
\* finite. What a state shows is whether a target is bound at all.
TerminationHypotheses == target # None

\* C19: when the files add finitely many entries, every attempt gets a
\* non-transient outcome and every pause is acknowledged, spray() goes on until
\* it has made the final analysis: it stops nowhere else, and it ends with one
\* round run per entry of the final password list.
C19_RunsToTheEnd ==
    TerminationHypotheses =>
        /\ pc = "done" \/ ENABLED Next
        /\ pc = "done" =>
              /\ analyses >= 1
              /\ pwIdx = Len(passwords)
              /\ roundsDone = Len(passwords) + (IF cfg.equal THEN 1 ELSE 0)

\* C20: within a call of _login, login is invoked again only after an
\* invocation of login that failed transiently; not after one that returned a
\* response, also when print_response failed for it.
C20_NoLoginAfterResponse ==
    (pc = "login" /\ logins > 0) => response = "error"

====
